---- MODULE Spec2Model ----
(***************************************************************************)
(* Model of the task list front end (PostgREST variant, index.js) and of   *)
(* the api.tasks table it talks to.                                        *)
(*                                                                         *)
(* Every async function is cut at its await: the part before the fetch is  *)
(* one action (...Fetch), the part after it another (...Resume).  Between  *)
(* the two the backend may process the request (Serve...).  What the       *)
(* fetch settles with - the response, a non-2xx status, a rejection, a     *)
(* body of another shape - is drawn when the function resumes (Replies).   *)
(* response.json() is awaited right after fetch and nothing is written     *)
(* between the two awaits, so both are one resumption.  alert() blocks     *)
(* the page until the user closes the dialog (Dismiss).                    *)
(***************************************************************************)
EXTENDS Integers, Sequences, FiniteSets, TLC

\* ---- bounds ----
\* fetch calls issued in one run
MaxReqs == 3
\* rows in api.tasks when the page is opened
MaxRows == 1


VARIABLES
    taskList,   \* the <li> children of #taskList, in document order
    taskInput,  \* taskInput.value
    db,         \* api.tasks, in table order
    reqs,       \* the fetch calls whose async function has not returned yet
    issued,     \* number of fetch calls made so far
    returned,   \* per request kind, calls that returned without an error
    dialog,     \* text of the open alert() dialog, "none" when there is none
    page        \* which index.js the page runs: "api", or the local one
                \* before ("local") and after ("loaded") window.onload

vars == <<taskList, taskInput, db, reqs, issued, returned, dialog, page>>

\* ---- strings ----
\* a string is the sequence of its characters; what the user may have in
\* the input field: nothing, a blank, a name with blanks around it
Inputs == {<<>>, <<" ">>, <<" ", "a", " ">>}

RECURSIVE trimStart(_)
trimStart(s) == IF s # <<>> /\ Head(s) = " " THEN trimStart(Tail(s)) ELSE s

RECURSIVE trimEnd(_)
trimEnd(s) ==
    IF s # <<>> /\ s[Len(s)] = " " THEN trimEnd(SubSeq(s, 1, Len(s) - 1)) ELSE s

\* String.prototype.trim
trim(s) == trimEnd(trimStart(s))

\* ---- api.tasks ----
Row(id, name, done) == [id |-> id, name |-> name, is_completed |-> done]

\* the tables of n rows, each row completed or not
RECURSIVE Tables(_)
Tables(n) ==
    IF n = 0 THEN {<<>>}
    ELSE {Append(t, Row(n, <<"a">>, c)) : t \in Tables(n - 1), c \in BOOLEAN}

\* INSERT: id defaults to a fresh uuid, is_completed as sent
Insert(table, name, done) == Append(table, Row(Len(table) + 1, name, done))

\* UPDATE ... WHERE id = eq.<taskId>
Update(table, taskId, done) ==
    [k \in 1..Len(table) |->
        IF table[k].id = taskId THEN [table[k] EXCEPT !.is_completed = done]
        ELSE table[k]]

\* ---- JSON bodies ----
JsonObject(row) ==
    [type |-> "object", id |-> row.id, name |-> row.name,
     is_completed |-> row.is_completed]
JsonNull == [type |-> "null", id |-> 0, name |-> <<>>, is_completed |-> FALSE]

JsonArray(table) == [k \in 1..Len(table) |-> JsonObject(table[k])]

NoResponse == [status |-> "none", json |-> "none", items |-> <<>>]
Response(status, json, items) ==
    [status |-> status, json |-> json, items |-> items]

\* ---- DOM ----
BaseClasses == {"w3-display-container", "task-item", "w3-white"}

toggle(classes, c) == IF c \in classes THEN classes \ {c} ELSE classes \cup {c}

\* elements that a pending click listener still holds
Held == {reqs[i].el : i \in {j \in 1..Len(reqs) : reqs[j].kind = "PATCH"}}

\* document.createElement: an element distinct from every live one
createElement(list, held) ==
    LET used == {list[k].el : k \in 1..Len(list)} \cup held
    IN  CHOOSE h \in 1..(Cardinality(used) + 1) :
            h \notin used /\ \A g \in 1..(h - 1) : g \in used

\* renderTask without line 31: the identifier is not stored on the item
renderTask_noId(list, task, held) ==
    IF task.type = "null"
    THEN [list |-> list, threw |-> TRUE]
    ELSE [list |-> Append(list,
             [el |-> createElement(list, held),
              taskId |-> 0,
              text |-> task.name,
              classes |-> BaseClasses \cup
                  (IF task.is_completed THEN {"completed", "w3-border-green"}
                   ELSE {"w3-border-theme-l1"})]),
          threw |-> FALSE]

\* renderTask(task): the list after the call, and whether it threw
renderTask(list, task, held) ==
    IF task.type = "null"
    THEN [list |-> list, threw |-> TRUE]
    ELSE [list |-> Append(list,
             [el |-> createElement(list, held),
              taskId |-> task.id,
              text |-> task.name,
              classes |-> BaseClasses \cup
                  (IF task.is_completed THEN {"completed", "w3-border-green"}
                   ELSE {"w3-border-theme-l1"})]),
          threw |-> FALSE]

\* tasks.forEach(task => renderTask(task))
RECURSIVE forEachRender(_, _, _)
forEachRender(list, tasks, held) ==
    IF tasks = <<>> THEN [list |-> list, threw |-> FALSE]
    ELSE LET r == renderTask(list, Head(tasks), held)
         IN  IF r.threw THEN r ELSE forEachRender(r.list, Tail(tasks), held)

\* loadTasks without line 81: the list is not cleared before rendering
loadTasksThen_noClear(list, resp, held) ==
    IF resp.status # "ok" \/ resp.json = "invalid"
    THEN [list |-> list, threw |-> TRUE]
    ELSE IF resp.json # "array"
         THEN [list |-> list, threw |-> TRUE]
         ELSE forEachRender(list, resp.items, held)

\* loadTasks after the fetch: try body, catch
loadTasksThen(list, resp, held) ==
    IF resp.status # "ok" \/ resp.json = "invalid"
    THEN [list |-> list, threw |-> TRUE]
    ELSE IF resp.json # "array"
         THEN [list |-> <<>>, threw |-> TRUE]
         ELSE forEachRender(<<>>, resp.items, held)

\* addTask rendering the sent task before looking at the response
addTaskThen_renderFirst(list, resp, held) ==
    IF resp.status # "ok" \/ resp.json # "array" \/ resp.items = <<>>
    THEN [list |-> Append(list,
             [el |-> createElement(list, held), taskId |-> 0,
              text |-> <<>>, classes |-> BaseClasses]),
          threw |-> TRUE]
    ELSE renderTask(list, Head(resp.items), held)

\* addTask taking a single object as well as an array
addTaskThen_eitherShape(list, resp, held) ==
    IF resp.status # "ok" \/ resp.json \notin {"array", "object"}
    THEN [list |-> list, threw |-> TRUE]
    ELSE IF resp.items = <<>>
         THEN [list |-> list, threw |-> TRUE]
         ELSE renderTask(list, Head(resp.items), held)

\* addTask without the renderTask(newTask) call
addTaskThen_noRender(list, resp, held) ==
    IF resp.status # "ok" \/ resp.json # "array"
    THEN [list |-> list, threw |-> TRUE]
    ELSE IF resp.items = <<>>
         THEN [list |-> list, threw |-> TRUE]
         ELSE [list |-> list, threw |-> FALSE]

\* addTask after the fetch: try body, catch
addTaskThen(list, resp, held) ==
    IF resp.status # "ok" \/ resp.json # "array"
    THEN [list |-> list, threw |-> TRUE]
    ELSE IF resp.items = <<>>
         THEN [list |-> list, threw |-> TRUE]
         ELSE renderTask(list, Head(resp.items), held)

\* completeTask whose catch block never runs
completeTaskFailed_swallow(resp) == FALSE

\* completeTask after the fetch: whether the catch block ran
completeTaskFailed(resp) == resp.status # "ok"

\* the click listener toggling 'completed' alone
listenerThen_completedOnly(list, el) ==
    [k \in 1..Len(list) |->
        IF list[k].el = el
        THEN [list[k] EXCEPT !.classes = toggle(@, "completed")]
        ELSE list[k]]

\* the click listener after await completeTask(...)
listenerThen(list, el) ==
    [k \in 1..Len(list) |->
        IF list[k].el = el
        THEN [list[k] EXCEPT !.classes =
                toggle(toggle(toggle(@, "completed"), "w3-border-green"),
                       "w3-border-theme-l1")]
        ELSE list[k]]

\* ---- requests ----
\* st: "sent" until the backend has processed the request, then "served";
\* "alerting" while the catch block waits in alert()
Request(kind, taskId, el, val, name) ==
    [kind |-> kind, st |-> "sent", taskId |-> taskId, el |-> el, val |-> val,
     name |-> name, rows |-> <<>>, committed |-> 0, resp |-> NoResponse]

\* the backend has processed request i: the rows it answers with and the
\* identifier of the row it wrote
Served(i, rows, committed) ==
    reqs' = [reqs EXCEPT ![i].st = "served", ![i].rows = rows,
                         ![i].committed = committed]

\* what the fetch of request i can settle with
Replies(i) ==
    IF reqs[i].st = "sent"
    THEN {Response("network_error", "none", <<>>),
          Response("http_error", "none", <<>>)}
    ELSE IF reqs[i].st # "served" THEN {}
    ELSE IF reqs[i].kind = "GET"
    THEN {Response("ok", "array", reqs[i].rows),
          Response("ok", "array", Append(reqs[i].rows, JsonNull)),
          Response("ok", "object", <<>>),
          Response("ok", "invalid", <<>>)}
    ELSE IF reqs[i].kind = "POST"
    THEN {Response("ok", "array", reqs[i].rows),
          Response("ok", "object", reqs[i].rows),
          Response("network_error", "none", <<>>)}
    ELSE {Response("ok", "none", <<>>),
          Response("network_error", "none", <<>>)}

\* the async function of request i has returned
Remove(i) == SubSeq(reqs, 1, i - 1) \o SubSeq(reqs, i + 1, Len(reqs))

\* the catch block of request i calls alert(msg)
Alert(i, resp, msg) ==
    /\ reqs' = [reqs EXCEPT ![i].st = "alerting", ![i].resp = resp]
    /\ dialog' = msg
    /\ returned' = returned

\* the async function of request i returns from its try block
Return(i) ==
    /\ reqs' = Remove(i)
    /\ dialog' = dialog
    /\ returned' = [returned EXCEPT ![reqs[i].kind] = @ + 1]

MsgEmpty == "You must write something!"
MsgLoad == "Failed to load tasks from API. Check console for details."
MsgAdd == "Failed to add task via API. Check console for details."
MsgUpdate == "Failed to update task status via API. Check console for details."

Init ==
    /\ page = "api"
    /\ taskList = <<>>
    /\ taskInput = <<>>
    /\ db \in Tables(MaxRows)
    /\ reqs = <<>>
    /\ issued = 0
    /\ returned = [kind \in {"GET", "POST", "PATCH"} |-> 0]
    /\ dialog = "none"

\* the user edits the input field
TypeInput(v) ==
    /\ dialog = "none"
    /\ v # taskInput
    /\ taskInput' = v
    /\ UNCHANGED <<page, taskList, db, reqs, issued, returned, dialog>>

\* fetch(...) letting the new request overtake the pending ones
Fetch_overtaking(req) ==
    /\ page = "api"
    /\ issued < MaxReqs
    /\ issued' = issued + 1
    /\ reqs' = <<req>> \o reqs

\* fetch(...): the request leaves, the async function is suspended
Fetch(req) ==
    /\ page = "api"
    /\ issued < MaxReqs
    /\ issued' = issued + 1
    /\ reqs' = Append(reqs, req)

\* ---- loadTasks ----
LoadTasksFetch ==
    /\ dialog = "none"
    /\ Fetch(Request("GET", 0, 0, FALSE, <<>>))
    /\ UNCHANGED <<page, taskList, taskInput, db, returned, dialog>>

LoadTasksResume(i, resp) ==
    /\ dialog = "none"
    /\ reqs[i].kind = "GET" /\ resp \in Replies(i)
    /\ LET r == loadTasksThen(taskList, resp, Held)
       IN  /\ taskList' = r.list
           /\ IF r.threw THEN Alert(i, resp, MsgLoad) ELSE Return(i)
    /\ UNCHANGED <<page, taskInput, db, issued>>

\* ---- addTask ----
\* the default argument without the trim() call
taskNameDefault_untrimmed(value) == value

\* the default argument: taskName = taskInput.value.trim()
taskNameDefault(value) == trim(value)

\* addTask clearing the field whether or not the try block completed
inputAfterAdd_always(value, threw) == <<>>

\* taskInput.value after addTask has resumed: cleared at the end of the
\* try block only
inputAfterAdd(value, threw) == IF threw THEN value ELSE <<>>

AddTaskEmpty ==
    /\ page = "api"
    /\ dialog = "none"
    /\ taskNameDefault(taskInput) = <<>>
    /\ dialog' = MsgEmpty
    /\ UNCHANGED <<page, taskList, taskInput, db, reqs, issued, returned>>

AddTaskFetch ==
    /\ dialog = "none"
    /\ taskNameDefault(taskInput) # <<>>
    /\ Fetch(Request("POST", 0, 0, FALSE, taskNameDefault(taskInput)))
    /\ UNCHANGED <<page, taskList, taskInput, db, returned, dialog>>

AddTaskResume(i, resp) ==
    /\ dialog = "none"
    /\ reqs[i].kind = "POST" /\ resp \in Replies(i)
    /\ LET r == addTaskThen(taskList, resp, Held)
       IN  /\ taskList' = r.list
           /\ taskInput' = inputAfterAdd(taskInput, r.threw)
           /\ IF r.threw THEN Alert(i, resp, MsgAdd) ELSE Return(i)
    /\ UNCHANGED <<page, db, issued>>

\* ---- click listener and completeTask ----
\* the listener up to the fetch inside completeTask
ClickTask(k) ==
    /\ dialog = "none"
    /\ Fetch(Request("PATCH", taskList[k].taskId, taskList[k].el,
                     "completed" \notin taskList[k].classes, <<>>))
    /\ UNCHANGED <<page, taskList, taskInput, db, returned, dialog>>

\* completeTask after the fetch, then the rest of the listener
ClickResume(i, resp) ==
    /\ dialog = "none"
    /\ reqs[i].kind = "PATCH" /\ resp \in Replies(i)
    /\ IF completeTaskFailed(resp)
       THEN Alert(i, resp, MsgUpdate) /\ taskList' = taskList
       ELSE taskList' = listenerThen(taskList, reqs[i].el) /\ Return(i)
    /\ UNCHANGED <<page, taskInput, db, issued>>

\* the user closes the dialog; the function that called alert() runs on
Dismiss ==
    /\ dialog # "none"
    /\ dialog' = "none"
    /\ IF \E i \in 1..Len(reqs) : reqs[i].st = "alerting"
       THEN LET i == CHOOSE j \in 1..Len(reqs) : reqs[j].st = "alerting"
            IN  /\ reqs' = Remove(i)
                /\ taskList' = IF reqs[i].kind = "PATCH"
                               THEN listenerThen(taskList, reqs[i].el)
                               ELSE taskList
       ELSE UNCHANGED <<reqs, taskList>>
    /\ UNCHANGED <<page, taskInput, db, issued, returned>>

\* ---- backend ----
\* SELECT * FROM api.tasks
ServeGet(i) ==
    /\ reqs[i].kind = "GET" /\ reqs[i].st = "sent"
    /\ Served(i, JsonArray(db), 0)
    /\ UNCHANGED <<page, taskList, taskInput, db, issued, returned, dialog>>

\* INSERT INTO api.tasks, returning the representation
ServePost(i) ==
    /\ reqs[i].kind = "POST" /\ reqs[i].st = "sent"
    /\ db' = Insert(db, reqs[i].name, FALSE)
    /\ Served(i, <<JsonObject(db'[Len(db')])>>, db'[Len(db')].id)
    /\ UNCHANGED <<page, taskList, taskInput, issued, returned, dialog>>

\* UPDATE api.tasks SET is_completed WHERE id = eq.<taskId>
ServePatch(i) ==
    /\ reqs[i].kind = "PATCH" /\ reqs[i].st = "sent"
    /\ db' = Update(db, reqs[i].taskId, reqs[i].val)
    /\ Served(i, <<>>, reqs[i].taskId)
    /\ UNCHANGED <<page, taskList, taskInput, issued, returned, dialog>>

Next ==
    \/ \E v \in Inputs : TypeInput(v)
    \/ LoadTasksFetch
    \/ AddTaskEmpty
    \/ AddTaskFetch
    \/ \E k \in 1..Len(taskList) : ClickTask(k)
    \/ Dismiss
    \/ \E i \in 1..Len(reqs) : \E resp \in Replies(i) : LoadTasksResume(i, resp)
    \/ \E i \in 1..Len(reqs) : \E resp \in Replies(i) : AddTaskResume(i, resp)
    \/ \E i \in 1..Len(reqs) : \E resp \in Replies(i) : ClickResume(i, resp)
    \/ \E i \in 1..Len(reqs) : ServeGet(i)
    \/ \E i \in 1..Len(reqs) : ServePost(i)
    \/ \E i \in 1..Len(reqs) : ServePatch(i)

Spec == Init /\ [][Next]_vars

TypeOK ==
    /\ taskInput \in Inputs
    /\ issued \in 0..MaxReqs
    /\ Len(reqs) <= issued

\* ---- the page without a backend (WebApp/tasks/index.js) ----
\* items the list may hold while the user adds
MaxItems == 3
\* length of the dummyTasks array of window.onload
MaxDummy == 2

\* the literals of dummyTasks: distinct, none empty
dummyTasks == [n \in 1..MaxDummy |-> [j \in 1..n |-> "a"]]

\* the taskText arguments of a call: none (null, undefined), a blank, a name
TextArgs == {<<>>, <<" ">>, <<"a">>}

\* addTask without the test of lines 14-19
addTask_noCheck(list, value, taskText, isNew) ==
    LET text == IF taskText = <<>> THEN trim(value) ELSE taskText
    IN  [list |-> Append(list,
                 [el |-> createElement(list, {}), taskId |-> 0,
                  text |-> text,
                  classes |-> BaseClasses \cup {"w3-border-theme-l1"}]),
         value |-> IF isNew THEN <<>> ELSE value,
         alert |-> FALSE]

\* addTask(taskText, isNew): the list and the field after the call, and
\* whether alert() was called
addTask(list, value, taskText, isNew) ==
    LET text == IF taskText = <<>> THEN trim(value) ELSE taskText
    IN  IF text = <<>>
        THEN [list |-> list, value |-> value, alert |-> isNew]
        ELSE [list |-> Append(list,
                     [el |-> createElement(list, {}), taskId |-> 0,
                      text |-> text,
                      classes |-> BaseClasses \cup {"w3-border-theme-l1"}]),
              value |-> IF isNew THEN <<>> ELSE value,
              alert |-> FALSE]

\* dummyTasks.forEach(task => addTask(task, false))
RECURSIVE forEachAdd(_, _, _)
forEachAdd(list, value, tasks) ==
    IF tasks = <<>> THEN list
    ELSE forEachAdd(addTask(list, value, Head(tasks), FALSE).list, value,
                    Tail(tasks))

\* the click listener of the item, toggling whatever was clicked
listItemClick_anyTarget(li, onCloseBtn) ==
    [li EXCEPT !.classes =
        toggle(toggle(toggle(@, "completed"), "w3-border-green"),
               "w3-border-theme-l1")]

\* the click listener of the item, for a click on the close button or not
listItemClick(li, onCloseBtn) ==
    IF onCloseBtn THEN li
    ELSE [li EXCEPT !.classes =
            toggle(toggle(toggle(@, "completed"), "w3-border-green"),
                   "w3-border-theme-l1")]

\* listItem.remove() taking the first item of the list
remove_first(list, k) == Tail(list)

\* listItem.remove() for the k-th item
remove(list, k) == SubSeq(list, 1, k - 1) \o SubSeq(list, k + 1, Len(list))

\* a click on the close button of the k-th item: the listener of the button,
\* then the listener of the item as the event bubbles; the list after both
\* and the detached item
closeBtnClick(list, k) ==
    [list |-> remove(list, k), removed |-> listItemClick(list[k], TRUE)]

InitLocal ==
    /\ page = "local"
    /\ taskList = <<>>
    /\ taskInput = <<>>
    /\ db = <<>>
    /\ reqs = <<>>
    /\ issued = 0
    /\ returned = [kind \in {"GET", "POST", "PATCH"} |-> 0]
    /\ dialog = "none"

\* addTask called with the given arguments
AddTaskCall(taskText, isNew) ==
    /\ page # "api"
    /\ dialog = "none"
    /\ Len(taskList) < MaxItems
    /\ LET r == addTask(taskList, taskInput, taskText, isNew)
       IN  /\ taskList' = r.list
           /\ taskInput' = r.value
           /\ dialog' = IF r.alert THEN MsgEmpty ELSE "none"
    /\ UNCHANGED <<page, db, reqs, issued, returned>>

\* Enter in the input field
KeypressEnter == AddTaskCall(<<>>, TRUE)

\* window.onload
WindowOnload ==
    /\ page = "local"
    /\ dialog = "none"
    /\ Len(taskList) + Len(dummyTasks) <= MaxItems
    /\ page' = "loaded"
    /\ taskList' = forEachAdd(taskList, taskInput, dummyTasks)
    /\ taskInput' = <<>>
    /\ UNCHANGED <<db, reqs, issued, returned, dialog>>

\* a click on the k-th item outside its close button
ClickItem(k) ==
    /\ page # "api"
    /\ dialog = "none"
    /\ taskList' = [taskList EXCEPT ![k] = listItemClick(@, FALSE)]
    /\ UNCHANGED <<page, taskInput, db, reqs, issued, returned, dialog>>

\* a click on the close button of the k-th item
ClickClose(k) ==
    /\ page # "api"
    /\ dialog = "none"
    /\ taskList' = closeBtnClick(taskList, k).list
    /\ UNCHANGED <<page, taskInput, db, reqs, issued, returned, dialog>>

NextLocal ==
    \/ \E v \in Inputs : TypeInput(v)
    \/ KeypressEnter
    \/ \E t \in TextArgs : \E isNew \in BOOLEAN : AddTaskCall(t, isNew)
    \/ WindowOnload
    \/ \E k \in 1..Len(taskList) : ClickItem(k)
    \/ \E k \in 1..Len(taskList) : ClickClose(k)
    \/ Dismiss

SpecLocal == InitLocal /\ [][NextLocal]_vars

\* ---- either page ----
NextPages == Next \/ NextLocal

SpecPages == (Init \/ InitLocal) /\ [][NextPages]_vars

\* ---- properties ----
Completed(li) == "completed" \in li.classes

Reqs == 1..Len(reqs)

\* what the user sees of an item
View(list) ==
    [k \in 1..Len(list) |->
        [taskId |-> list[k].taskId, text |-> list[k].text,
         classes |-> list[k].classes]]

\* createTask / listTasks / updateCompletion failed in transport or decoding
TransportFailed(resp) == resp.status # "ok"
DecodeFailed(resp) == resp.status = "ok" /\ resp.json = "invalid"

\* a list body that is not an array of task-shaped objects
NotTaskArray(resp) ==
    /\ resp.status = "ok"
    /\ \/ resp.json = "object"
       \/ resp.json = "array" /\ \E k \in 1..Len(resp.items) :
                                    resp.items[k].type # "object"

\* every displayed task is in the table with the displayed completion value
DisplayedAreCommitted(list, table) ==
    \A k \in 1..Len(list) : \E r \in 1..Len(table) :
        /\ table[r].id = list[k].taskId
        /\ table[r].is_completed = Completed(list[k])

Displayed(list, id) == \E k \in 1..Len(list) : list[k].taskId = id

\* a step in which a suspended async function runs on from its fetch
Resumes == dialog = "none" /\ issued' = issued /\ db' = db /\ reqs' # reqs

\* C1: when the PATCH of a toggle fails, the item's completion value once
\* the listener has finished is the value it had when it was clicked.
C1_ToggleRollback ==
    [][dialog = MsgUpdate => \A i \in Reqs :
          (reqs[i].kind = "PATCH" /\ reqs[i].st = "alerting" /\ Dismiss) =>
              \A k \in 1..Len(taskList') :
                  taskList'[k].el = reqs[i].el =>
                      Completed(taskList'[k]) = ~reqs[i].val]_vars

\* C2: a reload that fails, for whichever reason, leaves the displayed list
\* as it was and shows an error.
C2_ReloadFailureKeepsList ==
    [][Resumes => \A i \in Reqs :
          \A resp \in Replies(i) :
              (/\ LoadTasksResume(i, resp)
               /\ \/ TransportFailed(resp)
                  \/ DecodeFailed(resp)
                  \/ NotTaskArray(resp)) =>
                  taskList' = taskList /\ dialog' = MsgLoad]_vars

\* C3: the displayed list never holds two items with the same identifier.
C3_NoDuplicates ==
    \A j, k \in 1..Len(taskList) :
        j # k => taskList[j].taskId # taskList[k].taskId

\* C4: two PATCH requests for the same identifier are never in flight
\* together.
C4_OnePatchPerIdentifier ==
    \A i, j \in Reqs :
        (/\ i # j
         /\ reqs[i].kind = "PATCH" /\ reqs[j].kind = "PATCH"
         /\ reqs[i].taskId = reqs[j].taskId) =>
            ~(reqs[i].st = "sent" /\ reqs[j].st = "sent")

\* C5: when an action that showed an error has finished and no request is
\* in flight, every displayed task is committed with the displayed value
\* and every task the action persisted is displayed.
C5_ConsistentAfterError ==
    [][(/\ dialog \in {MsgLoad, MsgAdd, MsgUpdate}
        /\ Dismiss
        /\ reqs' = <<>>) =>
           /\ DisplayedAreCommitted(taskList', db')
           /\ \A i \in Reqs :
                 (reqs[i].kind = "POST" /\ reqs[i].committed # 0) =>
                     Displayed(taskList', reqs[i].committed)]_vars

\* C6: an Add whose POST fails leaves the displayed list as it was at every
\* step of addTask: no item is shown on submission, none when the failure
\* is handled, none when the error dialog is closed.
C6_AddRollback ==
    [][/\ AddTaskFetch => taskList' = taskList
       /\ Resumes => \A i \in Reqs :
             \A resp \in Replies(i) :
                 (/\ AddTaskResume(i, resp)
                  /\ TransportFailed(resp) \/ DecodeFailed(resp))
                     => taskList' = taskList /\ dialog' = MsgAdd
       /\ (dialog = MsgAdd /\ Dismiss) => taskList' = taskList]_vars

C6_Witness ==
    /\ dialog = MsgAdd
    /\ \E i \in Reqs : /\ reqs[i].kind = "POST" /\ reqs[i].st = "alerting"
                       /\ TransportFailed(reqs[i].resp)
    /\ taskList # <<>>

\* C7: when the name read from the input field is empty, no request is
\* issued, the displayed list is unchanged and a notice is shown; an Add
\* that does issue a POST read a non-empty name.
C7_ValidationFailsFast ==
    [][/\ (dialog = "none" /\ dialog' = MsgEmpty) =>
              /\ trim(taskInput) = <<>>
              /\ UNCHANGED <<taskList, reqs, issued, db>>
       /\ (issued' # issued /\ reqs'[Len(reqs')].kind = "POST") =>
              /\ trim(taskInput) # <<>>
              /\ reqs'[Len(reqs')].name = trim(taskInput)]_vars

C7_Witness ==
    /\ dialog = MsgEmpty
    /\ taskInput = <<" ">>
    /\ taskList # <<>>

\* C8: a successful Add appends exactly one item; its identifier is the one
\* the backend assigned and returned, its name the submitted one, it is not
\* completed, and every displayed identifier is one of the table.
C8_IdentifierAdoption ==
    [][Resumes => \A i \in Reqs :
          (/\ AddTaskResume(i, Response("ok", "array", reqs[i].rows))
           /\ reqs[i].st = "served") =>
              /\ Len(taskList') = Len(taskList) + 1
              /\ SubSeq(taskList', 1, Len(taskList)) = taskList
              /\ LET li == taskList'[Len(taskList')]
                 IN  /\ li.taskId = reqs[i].rows[1].id
                     /\ li.taskId = reqs[i].committed
                     /\ li.text = reqs[i].name
                     /\ ~Completed(li)
              /\ \A k \in 1..Len(taskList') :
                    \E r \in 1..Len(db) : db[r].id = taskList'[k].taskId
              /\ dialog' = "none"]_vars

C8_Witness ==
    /\ returned["POST"] = 1 /\ issued = 1
    /\ Len(taskList) = 1 /\ taskList[1].taskId = Len(db)

C10_ReloadShowsResponse ==
    [][Resumes => \A i \in Reqs :
          (/\ LoadTasksResume(i, Response("ok", "array", reqs[i].rows))
           /\ reqs[i].st = "served") =>
              View(taskList') =
                  [k \in 1..Len(reqs[i].rows) |->
                      [taskId |-> reqs[i].rows[k].id,
                       text |-> reqs[i].rows[k].name,
                       classes |-> BaseClasses \cup
                           (IF reqs[i].rows[k].is_completed
                            THEN {"completed", "w3-border-green"}
                            ELSE {"w3-border-theme-l1"})]]]_vars

C10_Witness ==
    /\ returned["GET"] = 2
    /\ reqs = <<>>
    /\ taskList # <<>>

\* C11: while the PATCH of a toggle is pending, the clicked item already
\* shows the value the request carries (the flip precedes the outcome).
C11_ToggleIsOptimistic ==
    \A i \in Reqs :
        (reqs[i].kind = "PATCH" /\ reqs[i].st \in {"sent", "served"}) =>
            \A k \in 1..Len(taskList) :
                taskList[k].el = reqs[i].el =>
                    Completed(taskList[k]) = reqs[i].val

C13_NoFailureSwallowed ==
    [][Resumes => \A i \in Reqs :
          \A resp \in Replies(i) :
              (TransportFailed(resp) \/ DecodeFailed(resp)) =>
                  /\ LoadTasksResume(i, resp) => dialog' = MsgLoad
                  /\ AddTaskResume(i, resp) => dialog' = MsgAdd
                  /\ ClickResume(i, resp) => dialog' = MsgUpdate]_vars

C13_Witness ==
    /\ dialog = MsgUpdate
    /\ \E i \in Reqs : /\ reqs[i].kind = "PATCH" /\ reqs[i].st = "alerting"
                       /\ reqs[i].resp.status = "http_error"
    /\ returned["GET"] >= 1

\* what identifies a request: its method, its task, its element, its value
Sent(q) == [kind |-> q.kind, taskId |-> q.taskId, el |-> q.el, val |-> q.val]

\* C14: the PATCH of a Toggle is sent in the step of the click, behind every
\* request sent before it, and no later step reorders the pending requests:
\* for one identifier the PATCHes leave in the order of the clicks.
C14_PatchesInClickOrder ==
    [][/\ \A k \in 1..Len(taskList) :
             ClickTask(k) =>
                 /\ Len(reqs') = Len(reqs) + 1
                 /\ SubSeq(reqs', 1, Len(reqs)) = reqs
                 /\ Sent(reqs'[Len(reqs')]) =
                        [kind |-> "PATCH", taskId |-> taskList[k].taskId,
                         el |-> taskList[k].el,
                         val |-> ~Completed(taskList[k])]
                 /\ reqs'[Len(reqs')].st = "sent"
       /\ (issued' = issued /\ reqs' # reqs) =>
             \E i \in Reqs :
                 \/ reqs' = Remove(i)
                 \/ /\ Len(reqs') = Len(reqs)
                    /\ \A j \in Reqs : Sent(reqs'[j]) = Sent(reqs[j])
                    /\ \A j \in Reqs \ {i} : reqs'[j] = reqs[j]]_vars

\* two Toggles of one task are pending, the PATCH of the first ahead
C14_Witness ==
    \E i, j \in Reqs :
        /\ i < j
        /\ reqs[i].kind = "PATCH" /\ reqs[j].kind = "PATCH"
        /\ reqs[i].taskId = reqs[j].taskId
        /\ reqs[i].st = "served" /\ reqs[j].st = "sent"

\* C15: when Reloads and Adds have all succeeded and none is pending, the
\* displayed identifiers are those of the table, each shown once.
C15_ConsistentAtQuiescence ==
    (/\ reqs = <<>> /\ dialog = "none"
     /\ returned["GET"] >= 1
     /\ issued = returned["GET"] + returned["POST"]) =>
        /\ {taskList[k].taskId : k \in 1..Len(taskList)} =
               {db[r].id : r \in 1..Len(db)}
        /\ \A k, l \in 1..Len(taskList) :
               taskList[k].taskId = taskList[l].taskId => k = l

\* C16: a Toggle sends the negation of the value shown at the click; when
\* its PATCH succeeds with no other Toggle pending, the task is shown with
\* that negation at the same position under the same identifier, and every
\* other item is shown as before.
C16_SuccessfulToggle ==
    [][/\ \A k \in 1..Len(taskList) :
             ClickTask(k) =>
                 reqs'[Len(reqs')].val = ~Completed(taskList[k])
       /\ Resumes => \A i \in Reqs :
             (/\ ClickResume(i, Response("ok", "none", <<>>))
              /\ reqs[i].st = "served"
              /\ \A j \in Reqs \ {i} : reqs[j].kind # "PATCH") =>
                 /\ Len(taskList') = Len(taskList)
                 /\ \A k \in 1..Len(taskList) :
                       IF taskList[k].taskId = reqs[i].taskId
                       THEN /\ taskList'[k].taskId = reqs[i].taskId
                            /\ Completed(taskList'[k]) = reqs[i].val
                       ELSE taskList'[k] = taskList[k]]_vars

\* C18: addTask leaves the input field as it is when the name is empty, when
\* the POST is sent, when the POST fails and when the error dialog is closed;
\* it empties the field exactly when the POST succeeded and the new task was
\* rendered.
C18_InputKeptOnFailedAdd ==
    [][/\ (AddTaskEmpty \/ AddTaskFetch) => taskInput' = taskInput
       /\ (dialog \in {MsgEmpty, MsgAdd} /\ Dismiss) => taskInput' = taskInput
       /\ Resumes => \A i \in Reqs :
             \A resp \in Replies(i) :
                 AddTaskResume(i, resp) =>
                     IF dialog' = MsgAdd
                     THEN taskInput' = taskInput /\ taskList' = taskList
                     ELSE /\ taskInput' = <<>>
                          /\ Len(taskList') = Len(taskList) + 1
                          /\ returned'["POST"] = returned["POST"] + 1]_vars

\* a failed Add has been reported and the field still holds the typed text
C18_Witness ==
    /\ dialog = MsgAdd
    /\ taskInput = <<" ", "a", " ">>
    /\ \E i \in Reqs : reqs[i].kind = "POST" /\ reqs[i].st = "alerting"
    /\ returned["POST"] = 1

\* C17: on either page every item carries 'completed' exactly when it
\* carries 'w3-border-green', and 'w3-border-theme-l1' exactly when it does
\* not carry 'completed'.
C17_StyleFlags ==
    \A k \in 1..Len(taskList) :
        /\ Completed(taskList[k]) <=> "w3-border-green" \in taskList[k].classes
        /\ "w3-border-theme-l1" \in taskList[k].classes
               <=> ~Completed(taskList[k])

\* after window.onload the list shows a completed item next to one that is
\* not
C17_Witness ==
    \E k, l \in 1..Len(taskList) :
        /\ page = "loaded"
        /\ Completed(taskList[k]) /\ ~Completed(taskList[l])
        /\ "w3-border-green" \in taskList[k].classes
        /\ "w3-border-theme-l1" \in taskList[l].classes

\* C19: on the page without a backend a click on the close button of an item
\* removes that item alone: the items before and after it stay as they were
\* and in their order, and the removed item was not toggled.
C19_LocalDelete ==
    [][\A k \in 1..Len(taskList) :
          ClickClose(k) =>
              /\ Len(taskList') = Len(taskList) - 1
              /\ \A j \in 1..Len(taskList') :
                    taskList'[j] = IF j < k THEN taskList[j]
                                   ELSE taskList[j + 1]
              /\ closeBtnClick(taskList, k).removed = taskList[k]]_vars

\* the second of three items has been removed, the third was completed
C19_Witness ==
    /\ page = "loaded"
    /\ Len(taskList) = 2
    /\ taskList[1].el = 1 /\ taskList[2].el = 3
    /\ Completed(taskList[2])

\* C20: on the page without a backend no item has an empty text; a call of
\* addTask whose text resolves to the empty string leaves the list and the
\* field as they are and alerts exactly when isNew.
C20_NonEmptyNames ==
    /\ page # "api" => \A k \in 1..Len(taskList) : taskList[k].text # <<>>
    /\ page # "api" =>
          \A t \in TextArgs : \A isNew \in BOOLEAN :
              (IF t = <<>> THEN trim(taskInput) ELSE t) = <<>> =>
                  addTask(taskList, taskInput, t, isNew) =
                      [list |-> taskList, value |-> taskInput,
                       alert |-> isNew]

\* Enter on a blank field after the preloaded tasks: the notice is shown
C20_Witness ==
    /\ page = "loaded"
    /\ dialog = MsgEmpty
    /\ taskInput = <<" ">>
    /\ Len(taskList) = Len(dummyTasks)
====
